---- MODULE Spec2Model ----
(***************************************************************************)
(* Cross-validation training orchestration of the phoneme encoder-decoder  *)
(* (train/train.py): shuffle_weights, train_seq2seq_kfold,                 *)
(* train_seq2seq_single_fold, train_seq2seq and track_model_history.       *)
(*                                                                         *)
(* A weight tensor is a record [shape, flat]: its shape and its values in  *)
(* flat (row-major) order.  A model is the sequence of its layers, a layer *)
(* the sequence of its weight tensors.  Observations are the indices       *)
(* 0..N-1 of the leading axis of X, X_prior and y.                         *)
(*                                                                         *)
(* The framework is a black box: model.fit leaves weights of unchanged     *)
(* shapes and reports one per-epoch sequence per metric; KFold.split is    *)
(* scikit-learn's shuffled k-fold partitioner.  The augmentation paths     *)
(* (mixup_dict, jitter_dict) are not taken: both arguments are None, as in *)
(* scripts/train_rnn_gpu.py.  rand_state is None, so every shuffle of the  *)
(* partitioner is possible at every split.  epochs is at least 1 and is    *)
(* handed through to the framework; a per-epoch sequence is named by the   *)
(* fit that produced it.                                                   *)
(***************************************************************************)
EXTENDS Integers, Sequences, FiniteSets, TLC

\* ---- bounds of the model ----
MaxVal == 1
MaxN == 3
MaxFolds == 2
MaxReps == 2

VARIABLES
    layers,        \* train_model: its weights, layer by layer
    call,          \* a stand-alone shuffle_weights call: arguments and status
    args,          \* the arguments of train_seq2seq_kfold
    pc,            \* position in train_seq2seq_kfold / train_seq2seq_single_fold
    error,         \* the exception that ended the run, "" when none
    w_entry,       \* the model's weights when train_seq2seq_kfold was called
    init_train_w,  \* the snapshot of line 101
    w_trained,     \* <<r, f>> of the fit whose result the weights hold, <<0, 0>> if none
    cb,            \* the callback list of lines 106-114 (None or a list)
    histories,     \* metric name -> sequence of per-fold histories
    y_pred_all,
    y_test_all,
    r,             \* repetition being run (1-based), 0 before the loop
    f,             \* fold being run (1-based), 0 before the first fold
    folds,         \* what cv.split(X) yields in this repetition
    train_ind,
    test_ind,
    callbacks,     \* the list train_seq2seq_single_fold hands to the fit routine
    fit_call,      \* the last call of model.fit: batch_size, epochs, callbacks
    history,       \* History.history of the last fit
    ret,           \* what train_seq2seq_single_fold returned
    fold_log,      \* the folds handed to train_seq2seq_single_fold, in order
    cnt            \* how often each step has run

kvars == <<args, pc, error, w_entry, init_train_w, w_trained, cb, histories,
           y_pred_all, y_test_all, r, f, folds, train_ind, test_ind,
           callbacks, fit_call, history, ret, fold_log, cnt>>
vars == <<layers, call, kvars>>

\* ---- tensors and models ----
Vals == 0..MaxVal

RECURSIVE Prod(_)
Prod(s) == IF s = <<>> THEN 1 ELSE Head(s) * Prod(Tail(s))

Tensors(s) == {[shape |-> s, flat |-> v] : v \in [1..Prod(s) -> Vals]}

\* A two-layer network: a dense layer (kernel 2x1, bias 1) and a scale (1).
Models ==
    {<< <<k, b>>, <<s>> >> :
        k \in Tensors(<<2, 1>>), b \in Tensors(<<1>>), s \in Tensors(<<1>>)}

Shapes(ws) == [i \in 1..Len(ws) |-> ws[i].shape]

RECURSIVE get_weights(_)
get_weights(m) == IF m = <<>> THEN <<>> ELSE Head(m) \o get_weights(Tail(m))

RECURSIVE Offset(_, _)
Offset(m, l) == IF l = 1 THEN 0 ELSE Offset(m, l - 1) + Len(m[l - 1])

\* Model.set_weights hands each layer its slice of the flat list.
Distribute(m, ws) ==
    [l \in 1..Len(m) |-> SubSeq(ws, Offset(m, l) + 1, Offset(m, l) + Len(m[l]))]

\* model.layers[layer_idx], with Python's negative indices
LayerAt(m, L) == IF L < 0 THEN Len(m) + L + 1 ELSE L + 1

\* ---- shuffle_weights ----
Perms(n) == {p \in [1..n -> 1..n] : \A i, j \in 1..n : i # j => p[i] # p[j]}

\* np.random.permutation(w.flat)
permutation(v) == {[i \in 1..Len(v) |-> v[p[i]]] : p \in Perms(Len(v))}

\* .reshape(w.shape)
reshape(v, s) == [shape |-> s, flat |-> v]

\* All values pooled and dealt back to the tensors' shapes.
shuffled_pooled(weights) ==
    LET pool == get_weights([i \in 1..Len(weights) |-> weights[i].flat])
        off(i) == Offset([j \in 1..Len(weights) |-> weights[j].flat], i)
    IN  {[i \in 1..Len(weights) |->
            reshape(SubSeq(v, off(i) + 1, off(i) + Len(weights[i].flat)),
                    weights[i].shape)] : v \in permutation(pool)}

\* line 46
shuffled(weights) ==
    {ws \in [1..Len(weights) ->
                UNION {{reshape(v, weights[i].shape) : v \in permutation(weights[i].flat)} :
                       i \in 1..Len(weights)}] :
        \A i \in 1..Len(weights) :
            ws[i] \in {reshape(v, weights[i].shape) : v \in permutation(weights[i].flat)}}

\* lines 40-44: the list that is permuted
source_weights(m, has_w, W, has_l, L) ==
    IF has_w THEN W
    ELSE IF ~has_l THEN get_weights(m) ELSE m[LayerAt(m, L)]

\* lines 50-53: set_weights of the model or of the layer; the framework
\* raises ValueError, and sets nothing, when the list does not fit.
set_target(m, has_l, L, ws) ==
    LET target == IF ~has_l THEN get_weights(m) ELSE m[LayerAt(m, L)]
    IN  IF Shapes(ws) # Shapes(target)
        THEN [raised |-> TRUE, model |-> m]
        ELSE [raised |-> FALSE,
              model |-> IF ~has_l THEN Distribute(m, ws)
                        ELSE [m EXCEPT ![LayerAt(m, L)] = ws]]

\* lines 20-53: every outcome of shuffle_weights(model, weights, layer_idx)
shuffle_weights(m, has_w, W, has_l, L) ==
    {set_target(m, has_l, L, ws) : ws \in shuffled(source_weights(m, has_w, W, has_l, L))}

\* ---- the stand-alone call of shuffle_weights ----
NoCall == [status |-> "none", has_w |-> FALSE, W |-> <<>>, has_l |-> FALSE,
           L |-> 0, before |-> <<>>]

Reverse(s) == [i \in 1..Len(s) |-> s[Len(s) + 1 - i]]

\* weight lists a caller may pass: of a whole model, of one layer, or in the
\* wrong order
GivenWeights ==
    UNION {{get_weights(m), m[1], m[2], Reverse(m[1])} : m \in Models}

LayerIdx == {-1} \cup (0..1)

IdleKfold ==
    /\ args = [N |-> 0, num_folds |-> 0, num_reps |-> 0,
               early_stop |-> FALSE, kwargs |-> <<>>, metrics |-> {}]
    /\ pc = "idle"
    /\ error = ""
    /\ w_entry = <<>>
    /\ init_train_w = <<>>
    /\ w_trained = <<0, 0>>
    /\ cb = [is_none |-> TRUE, items |-> <<>>]
    /\ histories = <<>>
    /\ y_pred_all = <<>>
    /\ y_test_all = <<>>
    /\ r = 0
    /\ f = 0
    /\ folds = <<>>
    /\ train_ind = <<>>
    /\ test_ind = <<>>
    /\ callbacks = <<>>
    /\ fit_call = [called |-> FALSE, batch_size |-> 0, callbacks |-> <<>>]
    /\ history = <<>>
    /\ ret = <<>>
    /\ fold_log = <<>>
    /\ cnt = [split |-> 0, reset |-> 0, fit |-> 0, decode |-> 0, record |-> 0]

InitShuffle ==
    /\ layers \in Models
    /\ \E has_w \in BOOLEAN, has_l \in BOOLEAN :
       \E W \in (IF has_w THEN GivenWeights ELSE {<<>>}) :
       \E L \in (IF has_l THEN LayerIdx ELSE {0}) :
          call = [status |-> "pending", has_w |-> has_w, W |-> W,
                  has_l |-> has_l, L |-> L, before |-> layers]
    /\ IdleKfold

\* shuffle_weights(model, weights=W, layer_idx=L) runs
ShuffleCall ==
    /\ call.status = "pending"
    /\ \E out \in shuffle_weights(layers, call.has_w, call.W, call.has_l, call.L) :
          /\ layers' = out.model
          /\ call' = [call EXCEPT !.status = IF out.raised THEN "raised" ELSE "returned"]
    /\ UNCHANGED kvars

NextShuffle == ShuffleCall

SpecShuffle == InitShuffle /\ [][NextShuffle]_vars

\* ---- scikit-learn's KFold(n_splits, shuffle=True) ----
Indices(n) == 0..(n - 1)

RECURSIVE Sorted(_)
Sorted(S) ==
    IF S = {} THEN <<>>
    ELSE LET m == CHOOSE x \in S : \A y \in S : x <= y
         IN  <<m>> \o Sorted(S \ {m})

\* the shuffled index array
Shuffles(n) ==
    {p \in [1..n -> Indices(n)] : \A i, j \in 1..n : i # j => p[i] # p[j]}

\* the first n % k folds hold one observation more
fold_size(n, k, i) == (n \div k) + (IF i - 1 < n % k THEN 1 ELSE 0)

RECURSIVE fold_start(_, _, _)
fold_start(n, k, i) ==
    IF i = 1 THEN 0 ELSE fold_start(n, k, i - 1) + fold_size(n, k, i - 1)

\* the (train, test) pairs one call of split yields from the shuffle p
KFold_folds(p, n, k) ==
    [i \in 1..k |->
        LET test == {p[j] : j \in (fold_start(n, k, i) + 1)
                                  ..(fold_start(n, k, i) + fold_size(n, k, i))}
        IN  [train |-> Sorted(Indices(n) \ test), test |-> Sorted(test)]]

KFold_split(n, k) == {KFold_folds(p, n, k) : p \in Shuffles(n)}

\* The folds of every repetition are those of the first one.
split_once(rep, old, calls, n, k) ==
    IF rep = 1
    THEN {[folds |-> fs, calls |-> calls + 1] : fs \in KFold_split(n, k)}
    ELSE {[folds |-> old, calls |-> calls]}

\* line 124: enumerate(cv.split(X)) is evaluated when a repetition starts
split_for_rep(rep, old, calls, n, k) ==
    {[folds |-> fs, calls |-> calls + 1] : fs \in KFold_split(n, k)}

\* ---- the fit routine (train_seq2seq -> model.fit) ----
ValKey(k) == IF k = "loss" THEN "val_loss" ELSE "val_accuracy"

\* the keys of History.history: the loss and the compiled metrics, and their
\* validation twins since validation_data is given
ReportedKeys(metrics) ==
    ({"loss"} \cup metrics) \cup {ValKey(k) : k \in {"loss"} \cup metrics}

\* the per-epoch sequence of one metric in fold f of repetition r, named by
\* the fit that produced it (its length and values are the framework's)
EpochSeq(rep, fold) == <<rep, fold>>

\* training moves the weights and keeps their shapes; the optimizer's
\* update is abstracted to one step applied to every weight
TrainSteps == {1}
Moved(ws, d) ==
    [i \in 1..Len(ws) |->
        [shape |-> ws[i].shape,
         flat |-> [j \in 1..Len(ws[i].flat) |-> ws[i].flat[j] + d]]]

\* lines 241-244: model.fit(...), every outcome
train_seq2seq(ws, rep, fold, metrics) ==
    {[weights |-> Moved(ws, d),
      history |-> [k \in ReportedKeys(metrics) |-> EpochSeq(rep, fold)]] :
        d \in TrainSteps}

\* ---- decode_seq2seq: (predictions, true labels) of the test observations ----
decode_seq2seq(stamp, test) ==
    << [i \in 1..Len(test) |-> [obs |-> test[i], kind |-> "pred", by |-> stamp]],
       [i \in 1..Len(test) |-> [obs |-> test[i], kind |-> "true", by |-> <<0, 0>>]] >>

\* The two decoded arrays returned the other way round.
single_fold_return_swapped(hist, decoded) == <<hist, decoded[2], decoded[1]>>

\* lines 212-215: y_test_fold, y_pred_fold = decode_seq2seq(...);
\* return history, y_test_fold, y_pred_fold
single_fold_return(hist, decoded) ==
    LET y_test_fold == decoded[1]
        y_pred_fold == decoded[2]
    IN  <<hist, y_test_fold, y_pred_fold>>

\* ---- track_model_history ----
\* Every key is emptied before the append.
track_model_history_reset(hist_dict, hist) ==
    [k \in (DOMAIN hist_dict) \cup (DOMAIN hist) |->
        IF k \in DOMAIN hist THEN <<hist[k]>> ELSE hist_dict[k]]

\* lines 247-257
track_model_history(hist_dict, hist) ==
    [k \in (DOMAIN hist_dict) \cup (DOMAIN hist) |->
        IF k \in DOMAIN hist
        THEN Append(IF k \in DOMAIN hist_dict THEN hist_dict[k] ELSE <<>>, hist[k])
        ELSE hist_dict[k]]

\* ---- train_seq2seq_kfold ----
\* The reset permutes the model's current weights.
reset_weights_current(m, snapshot) == shuffle_weights(m, FALSE, <<>>, FALSE, 0)

\* line 129: shuffle_weights(train_model, weights=init_train_w)
reset_weights(m, snapshot) == shuffle_weights(m, TRUE, snapshot, FALSE, 0)

\* The weights are reset after the fit instead of before it.
body_next_reset_late(p) ==
    CASE p = "fold_loop" -> "prepare"
      [] p = "prepare" -> "fit"
      [] p = "fit" -> "reset"
      [] p = "reset" -> "decode"
      [] p = "decode" -> "record"
      [] p = "record" -> "fold_loop"

\* lines 125-142 and 175-215: the order of the steps of one fold
body_next(p) ==
    CASE p = "fold_loop" -> "reset"
      [] p = "reset" -> "prepare"
      [] p = "prepare" -> "fit"
      [] p = "fit" -> "decode"
      [] p = "decode" -> "record"
      [] p = "record" -> "fold_loop"

EarlyStopping == [type |-> "EarlyStopping", rep |-> 0, fold |-> 0, test |-> <<>>]
Seq2seqPredictCallback(rep, fold, X_test) ==
    [type |-> "Seq2seqPredictCallback", rep |-> rep, fold |-> fold, test |-> X_test]

\* the keyword arguments a caller adds: the training script's, or verbose alone
KwargsChoices == {[verbose |-> 1], [verbose |-> 1, batch_size |-> 200]}
\* metrics the model was compiled with
MetricChoices == {{}, {"accuracy"}}

\* A freshly built model: zero bias, unequal kernel entries.
FreshModels ==
    {m \in Models : /\ m[1][1].flat = <<0, MaxVal>>
                    /\ m[1][2].flat = <<0>>
                    /\ m[2][1].flat = <<MaxVal>>}

Init ==
    /\ layers \in FreshModels
    /\ call = NoCall
    /\ args \in [N : 1..MaxN, num_folds : 1..MaxFolds, num_reps : 0..MaxReps,
                 early_stop : BOOLEAN,
                 kwargs : KwargsChoices, metrics : MetricChoices]
    /\ pc = "call"
    /\ error = ""
    /\ w_entry = get_weights(layers)
    /\ init_train_w = <<>>
    /\ w_trained = <<0, 0>>
    /\ cb = [is_none |-> TRUE, items |-> <<>>]
    /\ histories = <<>>
    /\ y_pred_all = <<>>
    /\ y_test_all = <<>>
    /\ r = 0
    /\ f = 0
    /\ folds = <<>>
    /\ train_ind = <<>>
    /\ test_ind = <<>>
    /\ callbacks = <<>>
    /\ fit_call = [called |-> FALSE, batch_size |-> 0, callbacks |-> <<>>]
    /\ history = <<>>
    /\ ret = <<>>
    /\ fold_log = <<>>
    /\ cnt = [split |-> 0, reset |-> 0, fit |-> 0, decode |-> 0, record |-> 0]

Raise(e) ==
    /\ pc' = "raised"
    /\ error' = e

\* lines 100-119: snapshot, partitioner, callbacks, aggregates.  KFold
\* refuses n_splits below 2.
Enter ==
    /\ pc = "call"
    /\ init_train_w' = get_weights(layers)
    /\ IF args.num_folds < 2
       THEN /\ Raise("ValueError")
            /\ UNCHANGED <<cb, histories>>
       ELSE /\ pc' = "rep_loop"
            /\ cb' = IF args.early_stop
                     THEN [is_none |-> FALSE, items |-> <<EarlyStopping>>]
                     ELSE [is_none |-> TRUE, items |-> <<>>]
            /\ histories' = [k \in {"accuracy", "loss"} |-> <<>>]
            /\ UNCHANGED error
    /\ UNCHANGED <<layers, call, args, w_entry, w_trained, y_pred_all,
                   y_test_all, r, f, folds, train_ind, test_ind, callbacks,
                   fit_call, history, ret, fold_log, cnt>>

\* line 120, and line 124 on entry to the inner loop: the next repetition
\* starts and cv.split(X) is called; it raises when there are fewer
\* observations than folds.
RepLoop ==
    /\ pc = "rep_loop"
    /\ r < args.num_reps
    /\ IF args.N < args.num_folds
       THEN /\ Raise("ValueError")
            /\ UNCHANGED <<r, f, folds, cnt>>
       ELSE /\ \E s \in split_for_rep(r + 1, folds, cnt.split, args.N, args.num_folds) :
                  /\ folds' = s.folds
                  /\ cnt' = [cnt EXCEPT !.split = s.calls]
            /\ r' = r + 1
            /\ f' = 0
            /\ pc' = "fold_loop"
            /\ UNCHANGED error
    /\ UNCHANGED <<layers, call, args, w_entry, init_train_w, w_trained, cb,
                   histories, y_pred_all, y_test_all, train_ind, test_ind,
                   callbacks, fit_call, history, ret, fold_log>>

\* line 124: the next (train_ind, test_ind) of this repetition, or the end
\* of the repetition
FoldLoop ==
    /\ pc = "fold_loop"
    /\ IF f < Len(folds)
       THEN /\ f' = f + 1
            /\ train_ind' = folds[f + 1].train
            /\ test_ind' = folds[f + 1].test
            /\ fold_log' = Append(fold_log,
                                  [rep |-> r, fold |-> f + 1,
                                   train |-> folds[f + 1].train,
                                   test |-> folds[f + 1].test])
            /\ pc' = body_next("fold_loop")
       ELSE /\ pc' = "rep_loop"
            /\ UNCHANGED <<f, train_ind, test_ind, fold_log>>
    /\ UNCHANGED <<layers, call, args, error, w_entry, init_train_w, w_trained,
                   cb, histories, y_pred_all, y_test_all, r, folds, callbacks,
                   fit_call, history, ret, cnt>>

\* line 129
Reset ==
    /\ pc = "reset"
    /\ \E out \in reset_weights(layers, init_train_w) :
          /\ layers' = out.model
          /\ IF out.raised
             THEN /\ Raise("ValueError")
                  /\ UNCHANGED <<w_trained, cnt>>
             ELSE /\ pc' = body_next("reset")
                  /\ w_trained' = <<0, 0>>
                  /\ cnt' = [cnt EXCEPT !.reset = @ + 1]
                  /\ UNCHANGED error
    /\ UNCHANGED <<call, args, w_entry, init_train_w, cb, histories,
                   y_pred_all, y_test_all, r, f, folds, train_ind, test_ind,
                   callbacks, fit_call, history, ret, fold_log>>

\* lines 175-205: the data are sliced and the prediction callback is made;
\* it is appended to the caller's list when there is one
Prepare ==
    /\ pc = "prepare"
    /\ LET seq2seq_cb == Seq2seqPredictCallback(r, f, test_ind)
       IN  IF ~cb.is_none
           THEN /\ cb' = [cb EXCEPT !.items = Append(@, seq2seq_cb)]
                /\ callbacks' = Append(cb.items, seq2seq_cb)
           ELSE /\ callbacks' = <<seq2seq_cb>>
                /\ UNCHANGED cb
    /\ pc' = body_next("prepare")
    /\ UNCHANGED <<layers, call, args, error, w_entry, init_train_w, w_trained,
                   histories, y_pred_all, y_test_all, r, f, folds, train_ind,
                   test_ind, fit_call, history, ret, fold_log, cnt>>

\* lines 206-210: train_seq2seq(..., batch_size=X_train.shape[0], ...,
\* **kwargs); a batch_size among the keyword arguments is a second value
\* for the same parameter, a TypeError
Fit ==
    /\ pc = "fit"
    /\ IF "batch_size" \in DOMAIN args.kwargs
       THEN /\ Raise("TypeError")
            /\ UNCHANGED <<layers, w_trained, fit_call, history, cnt>>
       ELSE /\ \E out \in train_seq2seq(get_weights(layers), r, f, args.metrics) :
                  /\ layers' = Distribute(layers, out.weights)
                  /\ history' = out.history
            /\ fit_call' = [called |-> TRUE, batch_size |-> Len(train_ind),
                            callbacks |-> callbacks]
            /\ w_trained' = <<r, f>>
            /\ cnt' = [cnt EXCEPT !.fit = @ + 1]
            /\ pc' = body_next("fit")
            /\ UNCHANGED error
    /\ UNCHANGED <<call, args, w_entry, init_train_w, cb, histories,
                   y_pred_all, y_test_all, r, f, folds, train_ind, test_ind,
                   callbacks, ret, fold_log>>

\* lines 212-215
Decode ==
    /\ pc = "decode"
    /\ ret' = single_fold_return(history, decode_seq2seq(w_trained, test_ind))
    /\ cnt' = [cnt EXCEPT !.decode = @ + 1]
    /\ pc' = body_next("decode")
    /\ UNCHANGED <<layers, call, args, error, w_entry, init_train_w, w_trained,
                   cb, histories, y_pred_all, y_test_all, r, f, folds,
                   train_ind, test_ind, callbacks, fit_call, history, fold_log>>

\* lines 131-142: history, y_pred_fold, y_test_fold = ...; the aggregates grow
Record ==
    /\ pc = "record"
    /\ LET y_pred_fold == ret[2]
           y_test_fold == ret[3]
       IN  /\ y_pred_all' = y_pred_all \o y_pred_fold
           /\ y_test_all' = y_test_all \o y_test_fold
    /\ histories' = track_model_history(histories, ret[1])
    /\ cnt' = [cnt EXCEPT !.record = @ + 1]
    /\ pc' = body_next("record")
    /\ UNCHANGED <<layers, call, args, error, w_entry, init_train_w, w_trained,
                   cb, r, f, folds, train_ind, test_ind, callbacks, fit_call,
                   history, ret, fold_log>>

\* line 144
Return ==
    /\ pc = "rep_loop"
    /\ r = args.num_reps
    /\ pc' = "returned"
    /\ UNCHANGED <<layers, call, args, error, w_entry, init_train_w, w_trained,
                   cb, histories, y_pred_all, y_test_all, r, f, folds,
                   train_ind, test_ind, callbacks, fit_call, history, ret,
                   fold_log, cnt>>

Next ==
    \/ Enter
    \/ RepLoop
    \/ FoldLoop
    \/ Reset
    \/ Prepare
    \/ Fit
    \/ Decode
    \/ Record
    \/ Return

Spec == Init /\ [][Next]_vars

\* ---- properties ----
Range(s) == {s[i] : i \in DOMAIN s}
Count(s, v) == Cardinality({i \in DOMAIN s : s[i] = v})
SameValues(a, b) ==
    /\ Len(a) = Len(b)
    /\ \A v \in Range(a) \cup Range(b) : Count(a, v) = Count(b, v)

\* list `new` is, tensor by tensor, a reshuffle of list `src`
PerTensorPermutation(new, src) ==
    /\ Len(new) = Len(src)
    /\ \A i \in 1..Len(src) :
          /\ new[i].shape = src[i].shape
          /\ SameValues(new[i].flat, src[i].flat)

\* the weights the call is aimed at: the model's or the layer's
TargetOf(m, c) == IF ~c.has_l THEN get_weights(m) ELSE m[LayerAt(m, c.L)]
SourceOf(c) == IF c.has_w THEN c.W ELSE TargetOf(c.before, c)

\* C1: after shuffle_weights returns, the target holds as many tensors as
\* the source list, and the i-th has the shape of the i-th source tensor and
\* exactly its values, reordered; no value changes tensor.
C1_ShufflePreservesTensors ==
    call.status = "returned" =>
        PerTensorPermutation(TargetOf(layers, call), SourceOf(call))

\* a layer was given a list of other values, and they arrived reordered
C1_Witness ==
    /\ call.status = "returned"
    /\ call.has_w
    /\ call.has_l
    /\ TargetOf(layers, call) # call.W
    /\ TargetOf(layers, call) # TargetOf(call.before, call)

InFold == pc \in {"reset", "prepare", "fit", "decode", "record"}

\* C2: whenever the fit routine is about to be invoked, the model's weights
\* are a per-tensor permutation of the weights the model had on entry and
\* hold the result of no earlier fit; the snapshot stays what was taken on
\* entry.
C2_ResetFromSnapshot ==
    /\ pc # "call" => init_train_w = w_entry
    /\ pc = "fit" =>
          /\ PerTensorPermutation(get_weights(layers), w_entry)
          /\ w_trained = <<0, 0>>

\* a later fold is about to fit, earlier folds have trained the model, and
\* the reset has reordered the snapshot
C2_Witness ==
    /\ pc = "fit"
    /\ cnt.fit >= 2
    /\ get_weights(layers) # w_entry

\* C3 as stated: every metric name of the histories holds one entry per
\* completed fold, and num_reps * num_folds entries on return.
C3_EveryNameOneEntryPerFold ==
    /\ \A k \in DOMAIN histories : Len(histories[k]) = cnt.record
    /\ pc = "returned" =>
          \A k \in DOMAIN histories :
              Len(histories[k]) = args.num_reps * args.num_folds

\* C3, amended: every metric name the fit routine reports holds one entry
\* per completed fold, and num_reps * num_folds entries on return; a name
\* seeded at line 117 that the fit never reports stays empty.
C3_ReportedNamesOneEntryPerFold ==
    /\ \A k \in DOMAIN histories :
          Len(histories[k]) =
              IF k \in ReportedKeys(args.metrics) THEN cnt.record ELSE 0
    /\ cnt.record >= 1 => ReportedKeys(args.metrics) \subseteq DOMAIN histories
    /\ cnt.record = cnt.fit \/ cnt.record + 1 = cnt.fit
    /\ pc = "returned" => cnt.record = args.num_reps * args.num_folds

\* a run of four folds has returned for a model compiled without accuracy
C3_Witness ==
    /\ pc = "returned"
    /\ args.metrics = {}
    /\ cnt.record = 4
    /\ Len(histories["loss"]) = 4
    /\ Len(histories["val_loss"]) = 4
    /\ Len(histories["accuracy"]) = 0

\* C4: on return the entry at position (f-1)*num_reps + (r-1), counted from
\* zero, of every reported metric is the history of fold f in repetition r.
C4_FoldMajorOrder ==
    pc = "returned" =>
        \A k \in ReportedKeys(args.metrics) :
        \A fo \in 1..args.num_folds : \A re \in 1..args.num_reps :
            histories[k][(fo - 1) * args.num_reps + (re - 1) + 1] = EpochSeq(re, fo)

\* C5: with a batch_size among the keyword arguments, no fold's call of the
\* fit routine fails and each uses that batch_size.
C5_BatchSizeUsed ==
    "batch_size" \in DOMAIN args.kwargs =>
        /\ error # "TypeError"
        /\ fit_call.called => fit_call.batch_size = args.kwargs.batch_size

AsSet(s) == Range(s)

\* C6: the train and test indices handed to every fold are disjoint and
\* together are all of 0..N-1, and cv.split has been called once per
\* repetition started.
C6_FoldsPartition ==
    /\ \A i \in 1..Len(fold_log) :
          /\ AsSet(fold_log[i].train) \cap AsSet(fold_log[i].test) = {}
          /\ AsSet(fold_log[i].train) \cup AsSet(fold_log[i].test) = Indices(args.N)
    /\ InFold =>
          /\ train_ind = fold_log[Len(fold_log)].train
          /\ test_ind = fold_log[Len(fold_log)].test
    /\ cnt.split = r

\* the second repetition runs on another partition than the first
C6_Witness ==
    /\ pc = "fit"
    /\ r = 2
    /\ f = 2
    /\ test_ind # fold_log[2].test
    /\ Len(train_ind) >= 2

\* C7: the list handed to the fit routine holds exactly one
\* Seq2seqPredictCallback, this fold's, and the early-stopping callback
\* when early_stop is set, and nothing else.
C7_OnePredictCallbackPerFold ==
    pc = "decode" =>
        /\ Count(fit_call.callbacks, Seq2seqPredictCallback(r, f, test_ind)) = 1
        /\ Cardinality({i \in DOMAIN fit_call.callbacks :
                           fit_call.callbacks[i].type = "Seq2seqPredictCallback"}) = 1
        /\ Len(fit_call.callbacks) = IF args.early_stop THEN 2 ELSE 1

\* C8: every fold runs reset, fit, decode, record in this order and one fold
\* at a time: the fit starts on freshly reset weights, the predictions are
\* decoded from the weights this fold's fit left, and the aggregates hold
\* every earlier fold when the next one starts.
C8_SequentialFolds ==
    /\ cnt.record <= cnt.decode /\ cnt.decode <= cnt.fit
    /\ cnt.fit <= cnt.reset /\ cnt.reset <= cnt.record + 1
    /\ pc = "fit" => cnt.reset = cnt.fit + 1 /\ w_trained = <<0, 0>>
    /\ pc = "decode" => cnt.fit = cnt.decode + 1 /\ w_trained = <<r, f>>
    /\ pc = "record" =>
          /\ cnt.decode = cnt.record + 1
          /\ w_trained = <<r, f>>
          /\ \A i \in DOMAIN ret[2] : ret[2][i].by = <<r, f>>
          /\ ret[1] = history
    /\ pc = "reset" =>
          /\ cnt.record = cnt.reset
          /\ Len(fold_log) = cnt.record + 1
          /\ \A k \in DOMAIN histories :
                Len(histories[k]) \in {0, cnt.record}

\* the second fold has been decoded and is about to be recorded
C8_Witness ==
    /\ pc = "record"
    /\ cnt.record = 1
    /\ cnt.reset = 2
    /\ Len(y_pred_all) >= 1

RECURSIVE TestsOf(_, _)
\* the test observations of the first k folds run, in order
TestsOf(log, k) == IF k = 0 THEN <<>> ELSE TestsOf(log, k - 1) \o log[k].test
RECURSIVE StampsOf(_, _)
StampsOf(log, k) ==
    IF k = 0 THEN <<>>
    ELSE StampsOf(log, k - 1)
         \o [i \in 1..Len(log[k].test) |-> <<log[k].rep, log[k].fold>>]

\* C9: the single-fold trainer returns (history, predictions, true labels);
\* the second array of train_seq2seq_kfold is the folds' predictions in the
\* order the folds ran, the third the same folds' true labels, of equal
\* length and observation by observation the same.
C9_PredictionsThenLabels ==
    /\ pc = "record" =>
          /\ ret[1] = history
          /\ \A i \in DOMAIN ret[2] : ret[2][i].kind = "pred"
          /\ \A i \in DOMAIN ret[3] : ret[3][i].kind = "true"
    /\ pc \in {"fold_loop", "rep_loop", "returned"} =>
          /\ [i \in DOMAIN y_pred_all |-> y_pred_all[i].obs] = TestsOf(fold_log, cnt.record)
          /\ [i \in DOMAIN y_test_all |-> y_test_all[i].obs] = TestsOf(fold_log, cnt.record)
          /\ [i \in DOMAIN y_pred_all |-> y_pred_all[i].by] = StampsOf(fold_log, cnt.record)
          /\ \A i \in DOMAIN y_pred_all : y_pred_all[i].kind = "pred"
          /\ \A i \in DOMAIN y_test_all : y_test_all[i].kind = "true"
          /\ Len(y_pred_all) = Len(y_test_all)

\* a run of four folds over three observations has returned
C9_Witness ==
    /\ pc = "returned"
    /\ cnt.record = 4
    /\ Len(y_pred_all) = 6
    /\ y_pred_all[1].kind = "pred"
    /\ y_test_all[1].kind = "true"

====
